---- MODULE Spec2Model ----
(***************************************************************************)
(* Model of graphdocgen.py: the character-driven GraphQL SDL parser        *)
(* (GraphQLSchemaParser.read_character), the driver loop (convert_schema), *)
(* the record renderer (GraphQLSchema.to_markdown, table_to_markdown) and  *)
(* the document assembler (GraphQLSchemaParser.to_markdown).               *)
(*                                                                         *)
(* Conventions.  A Python str is a sequence of one-character strings, so   *)
(* that the token buffer grows character by character and comparisons such *)
(* as token == "type" or token == '"""' are real comparisons.  Rendered    *)
(* Markdown is a sequence of fragments: literal text of the source that    *)
(* the code never looks into is kept as one fragment, everything the code  *)
(* splits, strips or compares is kept character by character.  A Python    *)
(* dict is a sequence of entries in insertion order.  GraphQLSchema        *)
(* objects live in a heap (objects) and are referred to by index, 0 is     *)
(* None, so that aliasing between current_schema and the registry shows.   *)
(***************************************************************************)
EXTENDS Integers, Sequences, FiniteSets, TLC

VARIABLES
    parser,     \* the GraphQLSchemaParser object (its eleven fields)
    objects,    \* heap of GraphQLSchema objects, indexed by reference
    err,        \* "" or the name of the exception that aborted the run
    pending,    \* characters of the file not yet read
    pc,         \* position in convert_schema: "line", "inject", "render", "done"
    col,        \* "start" if the current line is empty so far, else "mid"
    eof,        \* TRUE once the file iterator is exhausted
    budget,     \* lexemes the environment may still write to the file
    decls,      \* declarations written to the file so far (structured)
    last_char,  \* the character the latest step handed to read_character,
                \* "" if that step made no call
    quote_run,  \* double quotes read in a row, modulo the sentinel length
    calls,      \* number of to_markdown calls made
    markdown    \* text returned by the latest to_markdown call

vars == <<parser, objects, err, pending, pc, col, eof, budget, decls,
          last_char, quote_run, calls, markdown>>

-----------------------------------------------------------------------------
(* Bounds *)

MaxLexemes == 4
MaxDecls == 4
MaxCalls == 2

-----------------------------------------------------------------------------
(* Strings used by the program and by the input alphabets *)

None == 0
Empty == <<>>
NL == "\n"
SP == " "
QUOTE == "\""
\* the grave accent of Markdown code spans, which a TLA+ string cannot hold
BACKTICK == "&#96;"

KW_type == <<"t", "y", "p", "e">>
KW_input == <<"i", "n", "p", "u", "t">>
KW_enum == <<"e", "n", "u", "m">>
KW_scalar == <<"s", "c", "a", "l", "a", "r">>

S_Int == <<"I", "n", "t">>
S_Float == <<"F", "l", "o", "a", "t">>
S_String == <<"S", "t", "r", "i", "n", "g">>
S_Boolean == <<"B", "o", "o", "l", "e", "a", "n">>
S_ID == <<"I", "D">>
S_Query == <<"Q", "u", "e", "r", "y">>
S_Mutation == <<"M", "u", "t", "a", "t", "i", "o", "n">>
S_Foo == <<"F", "o", "o">>
S_Bar == <<"B", "a", "r">>
S_x == <<"x">>
S_y == <<"y">>

SCALARS == {S_Int, S_Float, S_String, S_Boolean, S_ID}

KEYWORDS == {KW_type, KW_input, KW_enum, KW_scalar}

Delimiters == {" ", "{", ":", "}", "\n", "="}

Sentinel == <<QUOTE, QUOTE, QUOTE>>

-----------------------------------------------------------------------------
(* GraphQLSchema objects and Python dicts *)

GraphQLSchema(name, schema_type) ==
    [name |-> name, type |-> schema_type, fields |-> <<>>]

DictHas(d, k) == \E i \in 1..Len(d) : d[i].key = k

DictIndex(d, k) == CHOOSE i \in 1..Len(d) : d[i].key = k

DictGet(d, k) == d[DictIndex(d, k)].val

\* d[k] = v : an existing key keeps its position, a new key goes last
DictSetItemFront(d, k, v) ==
    IF DictHas(d, k)
    THEN [d EXCEPT ![DictIndex(d, k)].val = v]
    ELSE <<[key |-> k, val |-> v]>> \o d

DictSetItem(d, k, v) ==
    IF DictHas(d, k)
    THEN [d EXCEPT ![DictIndex(d, k)].val = v]
    ELSE Append(d, [key |-> k, val |-> v])

\* d.pop(k) of a key that is present: the dict without the entry
DictRemoveNothing(d, k) == d

DictRemove(d, k) ==
    LET i == DictIndex(d, k)
    IN  SubSeq(d, 1, i - 1) \o SubSeq(d, i + 1, Len(d))

add_field(schema, name, dtype) ==
    [schema EXCEPT !.fields = DictSetItem(@, name, dtype)]

-----------------------------------------------------------------------------
(* GraphQLSchemaParser *)

ParserInit ==
    [schemas |-> <<>>,
     scalars |-> SCALARS,
     current_schema |-> None,
     state |-> "none",
     current_type |-> Empty,
     field_state |-> "field",
     current_token |-> Empty,
     current_field |-> Empty,
     comment |-> FALSE,
     long_comment |-> FALSE,
     bracket_level |-> 0]

\* A machine state is the parser, the heap and the pending exception.
Raise(st, e) == [st EXCEPT !.err = e]

\* lines 68-72
SetCommentFlagNever(p, c) == p

SetCommentFlag(p, c) ==
    IF c = "\n" THEN [p EXCEPT !.comment = FALSE]
    ELSE IF c = "#" THEN [p EXCEPT !.comment = TRUE]
    ELSE p

\* line 77
IsBufferedAtAnyDepth(p, c) == c \notin Delimiters

IsBuffered(p, c) == p.bracket_level > 0 \/ c \notin Delimiters

\* lines 78-86
Accumulate(p, c) ==
    LET tok == Append(p.current_token, c)
        lvl == IF c = "(" THEN p.bracket_level + 1
               ELSE IF c = ")" THEN p.bracket_level - 1
               ELSE p.bracket_level
    IN  IF tok = Sentinel
        THEN [p EXCEPT !.current_token = Empty, !.bracket_level = lvl,
                       !.long_comment = ~p.long_comment]
        ELSE [p EXCEPT !.current_token = tok, !.bracket_level = lvl]

\* lines 92-102
StateNoneAnyToken(st, c) ==
    LET p == st.parser
    IN  IF c \notin {" ", "\n"} THEN Raise(st, "AssertionError")
        ELSE IF p.current_token = Empty THEN st
        ELSE [st EXCEPT !.parser.state = "name",
                        !.parser.current_type = p.current_token,
                        !.parser.current_schema = Len(st.objects) + 1,
                        !.objects = Append(@, GraphQLSchema(Empty, p.current_token))]

StateNone(st, c) ==
    LET p == st.parser
    IN  IF c \notin {" ", "\n"} THEN Raise(st, "AssertionError")
        ELSE IF p.current_token = Empty THEN st
        ELSE IF p.current_token \in KEYWORDS
        THEN [st EXCEPT !.parser.state = "name",
                        !.parser.current_type = p.current_token,
                        !.parser.current_schema = Len(st.objects) + 1,
                        !.objects = Append(@, GraphQLSchema(Empty, p.current_token))]
        ELSE Raise(st, "ValueError")

\* lines 110-114
RegisterScalarUnknown(st) ==
    LET p == st.parser
        name == st.objects[p.current_schema].name
    IN  [st EXCEPT !.parser.state = "none",
                   !.parser.current_type = Empty,
                   !.parser.schemas = DictSetItem(@, name, p.current_schema)]

RegisterScalar(st) ==
    LET p == st.parser
        name == st.objects[p.current_schema].name
    IN  [st EXCEPT !.parser.state = "none",
                   !.parser.current_type = Empty,
                   !.parser.scalars = @ \cup {name},
                   !.parser.schemas = DictSetItem(@, name, p.current_schema)]

\* lines 115-117
EnterFieldsEarly(st) ==
    LET p == st.parser
        name == st.objects[p.current_schema].name
    IN  [st EXCEPT !.parser.state = "fields",
                   !.parser.field_state = "field",
                   !.parser.schemas = DictSetItem(@, name, p.current_schema)]

EnterFields(st) ==
    [st EXCEPT !.parser.state = "fields", !.parser.field_state = "field"]

\* lines 104-117
StateNameAnyDelimiter(st, c) ==
    LET p == st.parser
    IN  IF p.current_schema = None THEN Raise(st, "AssertionError")
        ELSE LET named == [st EXCEPT !.objects[p.current_schema].name =
                                          p.current_token]
             IN  IF p.current_type = KW_scalar
                 THEN RegisterScalar(named)
                 ELSE EnterFields(named)

StateName(st, c) ==
    LET p == st.parser
    IN  IF c \notin {" ", "\n", "{"} THEN Raise(st, "AssertionError")
        ELSE IF p.current_schema = None THEN Raise(st, "AssertionError")
        ELSE LET named == [st EXCEPT !.objects[p.current_schema].name =
                                          p.current_token]
             IN  IF p.current_type = KW_scalar
                 THEN RegisterScalar(named)
                 ELSE EnterFields(named)

\* lines 123-129
CloseRecordKeepType(st) ==
    LET p == st.parser
    IN  IF p.current_schema = None THEN Raise(st, "AssertionError")
        ELSE [st EXCEPT !.parser.schemas =
                            DictSetItem(@, st.objects[p.current_schema].name,
                                        p.current_schema),
                        !.parser.current_schema = None,
                        !.parser.state = "none",
                        !.parser.field_state = "field"]

CloseRecord(st) ==
    LET p == st.parser
    IN  IF p.current_schema = None THEN Raise(st, "AssertionError")
        ELSE [st EXCEPT !.parser.schemas =
                            DictSetItem(@, st.objects[p.current_schema].name,
                                        p.current_schema),
                        !.parser.current_schema = None,
                        !.parser.state = "none",
                        !.parser.current_type = Empty,
                        !.parser.field_state = "field"]

\* lines 138-140
EnumValueTyped(st, c) ==
    LET p == st.parser
    IN  IF c \notin {" ", "\n"} THEN Raise(st, "AssertionError")
        ELSE [st EXCEPT !.objects[p.current_schema] =
                            add_field(@, p.current_token, p.current_token)]

EnumValue(st, c) ==
    LET p == st.parser
    IN  IF c \notin {" ", "\n"} THEN Raise(st, "AssertionError")
        ELSE IF p.current_schema = None THEN Raise(st, "AttributeError")
        ELSE [st EXCEPT !.objects[p.current_schema] =
                            add_field(@, p.current_token, Empty)]

\* lines 141-144
FieldName(st, c) ==
    [st EXCEPT !.parser.current_field = st.parser.current_token,
               !.parser.field_state = "dtype"]

\* lines 145-149
FieldType(st, c) ==
    LET p == st.parser
    IN  IF p.current_field = Empty THEN Raise(st, "AssertionError")
        ELSE IF p.current_schema = None THEN Raise(st, "AttributeError")
        ELSE [st EXCEPT !.objects[p.current_schema] =
                            add_field(@, p.current_field, p.current_token),
                        !.parser.current_field = Empty,
                        !.parser.field_state = "field"]

\* lines 131-132: a default value is skipped as a comment
SkipDefaultNever(st) == st

SkipDefault(st) ==
    [st EXCEPT !.parser.comment = TRUE]

\* lines 119-149
StateFieldsNoAssert(st, c) ==
    LET p == st.parser
    IN  IF c \notin {":", "{", "}", "\n", " ", "="} THEN Raise(st, "AssertionError")
        ELSE IF p.current_type = Empty THEN Raise(st, "AssertionError")
        ELSE IF c = "}" THEN CloseRecord(st)
        ELSE IF c = "=" THEN SkipDefault(st)
        ELSE IF p.current_token = Empty THEN st
        ELSE IF p.field_state = "field" /\ c \in {":", " ", "\n"}
        THEN IF p.current_type = KW_enum
             THEN EnumValue(st, c)
             ELSE FieldName(st, c)
        ELSE IF p.field_state = "dtype" /\ c \in {"\n", " "}
        THEN FieldType(st, c)
        ELSE st

StateFields(st, c) ==
    LET p == st.parser
    IN  IF c \notin {":", "{", "}", "\n", " ", "="} THEN Raise(st, "AssertionError")
        ELSE IF p.current_type = Empty THEN Raise(st, "AssertionError")
        ELSE IF c = "}" THEN CloseRecord(st)
        ELSE IF c = "=" THEN SkipDefault(st)
        ELSE IF p.current_token = Empty THEN st
        ELSE IF c \notin {" ", ":", "\n", "="} THEN Raise(st, "AssertionError")
        ELSE IF p.field_state = "field" /\ c \in {":", " ", "\n"}
        THEN IF p.current_type = KW_enum
             THEN EnumValue(st, c)
             ELSE FieldName(st, c)
        ELSE IF p.field_state = "dtype" /\ c \in {"\n", " "}
        THEN FieldType(st, c)
        ELSE st

\* lines 92-151: the state machine, then the reset of the token buffer,
\* which an exception skips
Dispatch(st, c) ==
    LET r == CASE st.parser.state = "none" -> StateNone(st, c)
               [] st.parser.state = "name" -> StateName(st, c)
               [] st.parser.state = "fields" -> StateFields(st, c)
    IN  IF r.err # "" THEN r
        ELSE [r EXCEPT !.parser.current_token = Empty]

\* lines 66-151
read_character(st, c) ==
    LET p1 == SetCommentFlag(st.parser, c)
        s1 == [st EXCEPT !.parser = p1]
    IN  IF p1.comment THEN s1
        ELSE IF IsBuffered(p1, c)
        THEN [s1 EXCEPT !.parser = Accumulate(p1, c)]
        ELSE IF p1.long_comment
        THEN [s1 EXCEPT !.parser.current_token = Empty]
        ELSE Dispatch(s1, c)

-----------------------------------------------------------------------------
(* Text helpers: the str methods the renderer uses *)

RECURSIVE Join(_, _)
\* sep.join(parts)
Join(parts, sep) ==
    IF parts = <<>> THEN <<>>
    ELSE IF Len(parts) = 1 THEN parts[1]
    ELSE parts[1] \o sep \o Join(Tail(parts), sep)

StartsWith(s, t) == Len(t) <= Len(s) /\ SubSeq(s, 1, Len(t)) = t

EndsWith(s, t) == Len(t) <= Len(s) /\ SubSeq(s, Len(s) - Len(t) + 1, Len(s)) = t

RECURSIVE SplitAcc(_, _, _)
\* s.split(sep) for a non-empty sep: acc is the part being collected
SplitAcc(s, sep, acc) ==
    IF s = <<>> THEN <<acc>>
    ELSE IF StartsWith(s, sep)
    THEN <<acc>> \o SplitAcc(SubSeq(s, Len(sep) + 1, Len(s)), sep, <<>>)
    ELSE SplitAcc(Tail(s), sep, Append(acc, Head(s)))

Split(s, sep) == SplitAcc(s, sep, <<>>)

RECURSIVE Lstrip(_, _)
Lstrip(s, ch) ==
    IF s # <<>> /\ Head(s) = ch THEN Lstrip(Tail(s), ch) ELSE s

RECURSIVE Rstrip(_, _)
Rstrip(s, ch) ==
    IF s # <<>> /\ s[Len(s)] = ch THEN Rstrip(SubSeq(s, 1, Len(s) - 1), ch) ELSE s

\* str.lower and str.upper on the letters of the model's alphabet
LowerChar(ch) ==
    CASE ch = "B" -> "b" [] ch = "D" -> "d" [] ch = "F" -> "f"
      [] ch = "I" -> "i" [] ch = "M" -> "m" [] ch = "Q" -> "q"
      [] ch = "S" -> "s" [] OTHER -> ch

UpperChar(ch) ==
    CASE ch = "t" -> "T" [] ch = "i" -> "I" [] ch = "e" -> "E"
      [] ch = "s" -> "S" [] ch = "x" -> "X" [] ch = "y" -> "Y"
      [] OTHER -> ch

Lower(s) == [i \in 1..Len(s) |-> LowerChar(s[i])]

Capitalize(s) ==
    [i \in 1..Len(s) |-> IF i = 1 THEN UpperChar(s[i]) ELSE LowerChar(s[i])]

-----------------------------------------------------------------------------
(* GraphQLSchema.to_markdown and table_to_markdown *)

IsTypeIdChar(ch) == ch \notin {"!", "[", "]"}

\* line 18, applied to the type expression of a field
get_type_id(dtype) == SelectSeq(dtype, IsTypeIdChar)

\* lines 178-183; headers and cells are texts, column_alignments is <<>> for None
table_to_markdown(headers, rows, column_alignments) ==
    LET aligns == IF column_alignments # <<>> THEN column_alignments
                  ELSE [i \in 1..Len(headers) |-> <<"---">>]
        line(cells) == <<"| ">> \o Join(cells, <<" | ">>) \o <<" |">>
    IN  line(headers) \o <<"\n">> \o line(aligns) \o <<"\n">>
        \o Join([i \in 1..Len(rows) |-> line(rows[i])], <<"\n">>)

\* line 39: the cross-link that replaces the bare type identifier
LinkTo(type_id) ==
    <<BACKTICK, "[", "<ins>", BACKTICK>> \o type_id
    \o <<BACKTICK, "</ins>", "]", "(", "#">> \o Lower(type_id)
    \o <<")", BACKTICK>>

\* lines 39-41
LinkedType(dtype, type_id) ==
    LET joined == Join(Split(dtype, type_id), LinkTo(type_id))
        left == IF StartsWith(dtype, type_id) THEN Lstrip(joined, BACKTICK)
                ELSE <<BACKTICK>> \o joined
    IN  IF EndsWith(dtype, type_id) THEN Rstrip(left, BACKTICK)
        ELSE left \o <<BACKTICK>>

\* line 43
PlainType(dtype) == <<BACKTICK>> \o dtype \o <<BACKTICK>>

\* line 38: does the field's type get a cross-link
IsLinked(dtype, scalars) == get_type_id(dtype) \notin scalars

\* lines 38-43
TypeToMarkdown(dtype, scalars) ==
    IF IsLinked(dtype, scalars)
    THEN LinkedType(dtype, get_type_id(dtype))
    ELSE PlainType(dtype)

\* line 44
FieldRow(field, dtype, scalars) ==
    << <<"**", BACKTICK>> \o field \o <<BACKTICK, ":** ">> \o TypeToMarkdown(dtype, scalars),
       <<"-">> >>

\* line 32
EnumRow(field) == << <<"**", BACKTICK>> \o field \o <<BACKTICK, "**">> >>

\* line 39 raises ValueError("empty separator") when the bare identifier
\* of a linked type is the empty string
SchemaRenderError(schema, scalars) ==
    IF schema.type # KW_scalar /\ schema.type # KW_enum
       /\ \E i \in 1..Len(schema.fields) :
              /\ IsLinked(schema.fields[i].val, scalars)
              /\ get_type_id(schema.fields[i].val) = Empty
    THEN "ValueError" ELSE ""

\* lines 20-49, for a record that renders without error
SchemaToMarkdown(schema, title_prefix, scalars) ==
    IF schema.type = KW_scalar
    THEN title_prefix \o <<" ">> \o schema.name
         \o <<"\n\n", "Datatype class: *">> \o schema.type \o <<"*">>
    ELSE LET f == schema.fields
             headers == IF schema.type = KW_enum THEN << <<"Values">> >>
                        ELSE << <<"Field">>, <<"Description">> >>
             aligns == IF schema.type = KW_enum THEN << <<":-:">> >> ELSE <<>>
             table == IF schema.type = KW_enum
                      THEN [i \in 1..Len(f) |-> EnumRow(f[i].key)]
                      ELSE [i \in 1..Len(f) |-> FieldRow(f[i].key, f[i].val, scalars)]
         IN  title_prefix \o <<" ">> \o schema.name
             \o <<"\n\n", "Datatype class: *">> \o Capitalize(schema.type)
             \o <<"*", "\n\n">> \o table_to_markdown(headers, table, aligns)

-----------------------------------------------------------------------------
(* GraphQLSchemaParser.to_markdown *)

\* scalars=None at lines 156-157 selects the module constant (lines 21-22)
EntrypointScalars(p) == SCALARS

\* line 159
CustomScalars(p) == p.scalars

\* line 159: the records left in the registry, in iteration order
RECURSIVE RenderRest(_, _, _)
RenderRest(entries, heap, scalars) ==
    IF entries = <<>> THEN [err |-> "", sections |-> <<>>]
    ELSE LET schema == heap[Head(entries).val]
             e == SchemaRenderError(schema, scalars)
         IN  IF e # "" THEN [err |-> e, sections |-> <<>>]
             ELSE LET r == RenderRest(Tail(entries), heap, scalars)
                  IN  [err |-> r.err,
                       sections |-> <<SchemaToMarkdown(schema, <<"##">>, scalars)>>
                                    \o r.sections]

\* lines 156-157: dict.pop of a key the registry lacks raises KeyError and
\* to_markdown returns nothing; the registry stays as it is at that point
PopMissingIgnored(schemas) ==
    [err |-> "", schemas |-> schemas, text |-> <<"# Entrypoint Data Types">>]

PopMissing(schemas) ==
    [err |-> "KeyError", schemas |-> schemas, text |-> <<>>]

\* line 156: schemas.pop("Query").to_markdown()
\* line 157: int("Mutation" in schemas) * [schemas.pop("Mutation").to_markdown()];
\*           the list operand is built, and the pop made, whatever the int is
\* The result carries the registry as the call leaves it.
ParserToMarkdown(p, heap) ==
    IF ~DictHas(p.schemas, S_Query)
    THEN PopMissing(p.schemas)
    ELSE
    LET query == heap[DictGet(p.schemas, S_Query)]
        s1 == DictRemove(p.schemas, S_Query)
        e1 == SchemaRenderError(query, EntrypointScalars(p))
    IN  IF e1 # "" THEN [err |-> e1, schemas |-> s1, text |-> <<>>]
        ELSE IF ~DictHas(s1, S_Mutation)
        THEN PopMissing(s1)
        ELSE
        LET count == IF DictHas(s1, S_Mutation) THEN 1 ELSE 0
            mutation == heap[DictGet(s1, S_Mutation)]
            s2 == DictRemove(s1, S_Mutation)
            e2 == SchemaRenderError(mutation, EntrypointScalars(p))
            rest == RenderRest(s2, heap, CustomScalars(p))
        IN  IF e2 # "" THEN [err |-> e2, schemas |-> s2, text |-> <<>>]
            ELSE IF rest.err # ""
            THEN [err |-> rest.err, schemas |-> s2, text |-> <<>>]
            ELSE [err |-> "", schemas |-> s2,
                  text |-> Join(
                      << <<"# Entrypoint Data Types">>,
                         SchemaToMarkdown(query, <<"##">>, EntrypointScalars(p)) >>
                      \o [i \in 1..count |->
                            SchemaToMarkdown(mutation, <<"##">>, EntrypointScalars(p))]
                      \o << <<"# Custom Data Types">> >>
                      \o rest.sections,
                      <<"\n\n">>)]

-----------------------------------------------------------------------------
(* Input: what the environment writes to the schema file *)

\* Free input: any sequence of up to MaxLexemes of these lexemes, which are
\* the words and punctuation of the grammar and two declaration headers
H_type == KW_type \o <<" ">> \o S_Foo \o <<" ", "{">>
H_enum == KW_enum \o <<" ">> \o S_Foo \o <<" ", "{">>

\* a field name with an argument list, and the colon ending it
A_field == S_x \o <<"(">> \o S_x \o <<":", " ">> \o S_x \o <<")", ":">>

Lexemes ==
    {KW_type, KW_input, KW_enum, KW_scalar, S_x,
     <<" ">>, <<"\n">>, <<"{">>, <<"}">>, <<":">>, <<"=">>,
     <<"#">>, <<"(">>, <<")">>, Sentinel, H_type, H_enum, A_field}

Field(name, dtype) == [key |-> name, val |-> dtype]

T_FooList == <<"[", "F", "o", "o", "!", "]", "!">>

\* Declared bodies: field names with their type expressions, in order
Bodies ==
    { <<>>,
      <<Field(S_x, S_Foo)>>,
      <<Field(S_y, T_FooList), Field(S_x, S_Int)>> }

Layouts == {"lines", "inline", "tight"}

Declaration(kind, name, body, layout) ==
    [kind |-> kind, name |-> name, fields |-> body, layout |-> layout]

\* Document input: declarations with pairwise distinct names; the entry
\* points are object types, Foo is declared with every kind, Bar is an
\* enum
DeclChoices ==
    { Declaration(KW_type, n, b, l) :
          n \in {S_Query, S_Mutation, S_Foo}, b \in Bodies, l \in Layouts }
    \cup { Declaration(k, S_Foo, b, l) :
          k \in {KW_input, KW_enum}, b \in Bodies, l \in Layouts }
    \cup { Declaration(KW_scalar, S_Foo, <<>>, "inline") }
    \cup { Declaration(KW_enum, S_Bar, <<Field(S_x, S_Foo)>>, "inline") }

\* the text of one field or enum value
FieldText(kind, f) ==
    IF kind = KW_enum THEN f.key ELSE f.key \o <<":", " ">> \o f.val

RECURSIVE BodyText(_, _, _)
\* lines:  "{" NL (" " field NL)* "}"
\* inline: "{" (" " field)* " }"
\* tight:  "{" field (" " field)* "}"
BodyText(kind, fs, layout) ==
    IF fs = <<>> THEN <<>>
    ELSE (CASE layout = "lines" -> <<" ">> \o FieldText(kind, Head(fs)) \o <<"\n">>
            [] layout = "inline" -> <<" ">> \o FieldText(kind, Head(fs))
            [] layout = "tight" -> FieldText(kind, Head(fs))
                                   \o (IF Len(fs) > 1 THEN <<" ">> ELSE <<>>))
         \o BodyText(kind, Tail(fs), layout)

\* the text of a declaration; declarations after the first start a new line
Serialize(d, first) ==
    (IF first THEN <<>> ELSE <<"\n">>)
    \o d.kind \o <<" ">> \o d.name
    \o (IF d.kind = KW_scalar THEN <<>>
        ELSE <<" ", "{">>
             \o (IF d.layout = "lines" THEN <<"\n">> ELSE <<>>)
             \o BodyText(d.kind, d.fields, d.layout)
             \o (IF d.layout = "inline" THEN <<" ">> ELSE <<>>)
             \o <<"}">>)

DeclaredNames == {decls[i].name : i \in 1..Len(decls)}

-----------------------------------------------------------------------------
(* convert_schema: the driver loop, and callers of to_markdown *)

Machine == [parser |-> parser, objects |-> objects, err |-> err]

\* one call of read_character (line 168 or 169)
Call(c) ==
    LET r == read_character(Machine, c)
    IN  /\ parser' = r.parser
        /\ objects' = r.objects
        /\ err' = r.err
        /\ last_char' = c
        /\ quote_run' = IF c = QUOTE THEN (quote_run + 1) % 3 ELSE 0
        /\ UNCHANGED <<calls, markdown>>

\* line 168 on the next character of the file; a newline ends the line
ReadNext(chars) ==
    /\ Call(Head(chars))
    /\ pending' = Tail(chars)
    /\ col' = "mid"
    /\ pc' = IF err' # "" THEN "done"
             ELSE IF Head(chars) = "\n" THEN "inject" ELSE "line"
    /\ UNCHANGED eof

\* lines 166-168, the file being any sequence of lexemes
ReadFileChar ==
    /\ pc = "line"
    /\ \/ /\ pending # <<>>
          /\ ReadNext(pending)
          /\ UNCHANGED <<budget, decls>>
       \/ /\ pending = <<>>
          /\ budget > 0
          /\ \E lex \in Lexemes : ReadNext(lex)
          /\ budget' = budget - 1
          /\ UNCHANGED decls

\* lines 166-168, the file being a sequence of declarations
ReadDocChar ==
    /\ pc = "line"
    /\ \/ /\ pending # <<>>
          /\ ReadNext(pending)
          /\ UNCHANGED <<budget, decls>>
       \/ /\ pending = <<>>
          /\ Len(decls) < MaxDecls
          /\ \E d \in DeclChoices :
                /\ d.name \notin DeclaredNames
                /\ ReadNext(Serialize(d, decls = <<>>))
                /\ decls' = Append(decls, d)
          /\ UNCHANGED budget

\* line 166: the file iterator is exhausted; a last line without a newline
\* still gets the newline of line 169
EndOfFileNoFlush ==
    /\ pc = "line"
    /\ pending = <<>>
    /\ eof' = TRUE
    /\ pc' = "render"
    /\ last_char' = ""
    /\ UNCHANGED <<parser, objects, err, pending, col, budget, decls,
                   quote_run, calls, markdown>>

EndOfFile ==
    /\ pc = "line"
    /\ pending = <<>>
    /\ eof' = TRUE
    /\ pc' = IF col = "mid" THEN "inject" ELSE "render"
    /\ last_char' = ""
    /\ UNCHANGED <<parser, objects, err, pending, col, budget, decls,
                   quote_run, calls, markdown>>

\* line 169
InjectNewline ==
    /\ pc = "inject"
    /\ Call("\n")
    /\ col' = "start"
    /\ pc' = IF err' # "" THEN "done" ELSE IF eof THEN "render" ELSE "line"
    /\ UNCHANGED <<pending, eof, budget, decls>>

\* line 170, and further calls of to_markdown on the same parser
ToMarkdown ==
    /\ \/ pc = "render"
       \/ pc = "done" /\ calls >= 1
    /\ calls < MaxCalls
    /\ LET r == ParserToMarkdown(parser, objects)
       IN  /\ parser' = [parser EXCEPT !.schemas = r.schemas]
           /\ err' = r.err
           /\ markdown' = r.text
    /\ calls' = calls + 1
    /\ pc' = "done"
    /\ last_char' = ""
    /\ UNCHANGED <<objects, pending, col, eof, budget, decls, quote_run>>

InitCommon ==
    /\ parser = ParserInit
    /\ objects = <<>>
    /\ err = ""
    /\ pending = <<>>
    /\ pc = "line"
    /\ col = "start"
    /\ eof = FALSE
    /\ decls = <<>>
    /\ last_char = ""
    /\ quote_run = 0
    /\ calls = 0
    /\ markdown = <<>>

Init == InitCommon /\ budget = MaxLexemes

DocInit == InitCommon /\ budget = 0

Next == ReadFileChar \/ InjectNewline \/ EndOfFile \/ ToMarkdown

DocNext == ReadDocChar \/ InjectNewline \/ EndOfFile \/ ToMarkdown

Spec == Init /\ [][Next]_vars

DocSpec == DocInit /\ [][DocNext]_vars

-----------------------------------------------------------------------------
(* Vocabulary of the properties *)

Contains(text, part) ==
    \E i \in 1..(Len(text) - Len(part) + 1) :
        SubSeq(text, i, i + Len(part) - 1) = part

\* the references held by the registry
RegistryRefs(p) == {p.schemas[i].val : i \in 1..Len(p.schemas)}

\* the registry as (key, record) pairs in iteration order
RegistryRecords ==
    [i \in 1..Len(parser.schemas) |->
        [key |-> parser.schemas[i].key, record |-> objects[parser.schemas[i].val]]]

\* the parse of the whole file has ended without error and nothing has
\* been rendered yet
Parsed == pc = "render" /\ calls = 0

DeclaredKind(name) ==
    {decls[i].kind : i \in {j \in 1..Len(decls) : decls[j].name = name}}

DeclaredScalars ==
    {decls[i].name : i \in {j \in 1..Len(decls) : decls[j].kind = KW_scalar}}

\* the fields a declaration declares: enum values carry the empty string
DeclaredFields(d) ==
    IF d.kind = KW_enum
    THEN [i \in 1..Len(d.fields) |-> Field(d.fields[i].key, Empty)]
    ELSE d.fields

\* a cross-link to type_id as it appears in a rendered cell
LinkText(type_id) ==
    <<"[", "<ins>", BACKTICK>> \o type_id
    \o <<BACKTICK, "</ins>", "]", "(", "#">> \o Lower(type_id) \o <<")">>

SectionHeading(name) == <<"##", " ">> \o name \o <<"\n\n">>

\* the record named name, wherever it is in the heap
RecordNamed(name) ==
    objects[CHOOSE i \in 1..Len(objects) : objects[i].name = name]

-----------------------------------------------------------------------------
(* C1 *)

\* C1: assembling a registry that holds a Query record and no Mutation
\* record completes without error; the output is the 'Entrypoint Data Types'
\* heading, the Query section, the 'Custom Data Types' heading and the
\* remaining records, and has no Mutation section.
C1_QueryWithoutMutationAssembles ==
    (calls = 1 /\ S_Query \in DeclaredNames /\ S_Mutation \notin DeclaredNames)
    => /\ err = ""
       /\ markdown =
            Join(<< <<"# Entrypoint Data Types">>,
                    SchemaToMarkdown(RecordNamed(S_Query), <<"##">>, SCALARS),
                    <<"# Custom Data Types">> >>
                 \o RenderRest(parser.schemas, objects, parser.scalars).sections,
                 <<"\n\n">>)
       /\ ~Contains(markdown, SectionHeading(S_Mutation))

-----------------------------------------------------------------------------
(* C2 *)

\* C2: when the document declares a scalar and the assembly succeeds, no
\* rendered record, entry points included, shows a field of that scalar
\* type as a cross-link: every section decides links with the built-in
\* scalars plus all declared scalars.
C2_DeclaredScalarNeverLinked ==
    (calls = 1 /\ err = "")
    => \A name \in DeclaredScalars : ~Contains(markdown, LinkText(name))

-----------------------------------------------------------------------------
(* C3 *)

\* C3: after a to_markdown call that succeeded, a second call on the same
\* parser succeeds too and returns the same Markdown.
C3_SecondCallSameMarkdown ==
    [][(calls = 1 /\ err = "" /\ calls' = 2)
       => (err' = "" /\ markdown' = markdown)]_vars

-----------------------------------------------------------------------------
(* C4 *)

-----------------------------------------------------------------------------
(* C5 *)

\* C5: after parsing, the record of every type/input/enum declaration holds
\* exactly the declared field names (enum values) in declared order, each
\* with its declared type expression (the empty string for enum values),
\* in every layout of the body, a closing brace right after the last type
\* expression or value included.
C5_FieldsMatchDeclaration ==
    Parsed
    => \A i \in 1..Len(decls) :
          /\ DictHas(parser.schemas, decls[i].name)
          /\ objects[DictGet(parser.schemas, decls[i].name)].fields
                = DeclaredFields(decls[i])

-----------------------------------------------------------------------------
(* C6 *)

\* the step reads a character that line 75 discards: any character but a
\* newline, read after a '#' or '=' opened a line comment, or the '#' itself
ReadsInLineComment ==
    /\ last_char' \notin {"", "\n"}
    /\ (last_char' = "#" \/ parser.comment)

\* the step reads a character while block/doc-comment mode is active
ReadsInDocComment == last_char' # "" /\ parser.long_comment

\* C6: a character read in line-comment mode leaves the token buffer, the
\* bracket depth, the doc-comment flag, the declaration state, the field
\* sub-state, the record in progress and the registry unchanged; a character
\* read in block/doc-comment mode leaves the declaration state, the field
\* sub-state, the record in progress, the registry and the scalar set
\* unchanged, whatever the comment spells.
C6_CommentsDoNotReachStateMachine ==
    [][/\ ReadsInLineComment
          => /\ parser'.current_token = parser.current_token
             /\ parser'.bracket_level = parser.bracket_level
             /\ parser'.long_comment = parser.long_comment
             /\ parser'.state = parser.state
             /\ parser'.field_state = parser.field_state
             /\ parser'.current_schema = parser.current_schema
             /\ parser'.schemas = parser.schemas
             /\ objects' = objects
             /\ err' = ""
       /\ ReadsInDocComment
          => /\ parser'.state = parser.state
             /\ parser'.field_state = parser.field_state
             /\ parser'.current_schema = parser.current_schema
             /\ parser'.schemas = parser.schemas
             /\ parser'.scalars = parser.scalars
             /\ objects' = objects
             /\ err' = ""]_vars

\* inside a doc comment a line comment was opened and the keyword `type`
\* was read in it
C6_Witness ==
    /\ parser.long_comment
    /\ parser.comment
    /\ last_char = "e"
    /\ pending = <<>>

-----------------------------------------------------------------------------
(* C7 *)

\* C7: while block/doc-comment mode is active, the step that reads the third
\* double quote of the next triple-quote sentinel of the input closes the
\* comment, whatever was read since the comment opened.
C7_NextSentinelCloses ==
    [][(parser.long_comment /\ quote_run = 2 /\ last_char' = QUOTE)
       => ~parser'.long_comment]_vars

-----------------------------------------------------------------------------
(* C8 *)

UnderConstruction(p) == p.state \in {"name", "fields"}

\* the record in progress exists and the registry does not hold it
InProgressHidden(p) ==
    UnderConstruction(p)
    => p.current_schema # None /\ p.current_schema \notin RegistryRefs(p)

\* C8: in every parser state the record under construction is not in the
\* registry; a record enters the registry only in the step that dispatches
\* the closing brace of its body or, for a scalar, the delimiter that ends
\* its name; and a record in the registry is never modified afterwards.
C8_RecordsRegisteredWhenComplete ==
    [][/\ InProgressHidden(parser)
       /\ InProgressHidden(parser')
       /\ \A ref \in RegistryRefs(parser') \ RegistryRefs(parser) :
            /\ ref = parser.current_schema
            /\ \/ parser.state = "fields" /\ last_char' = "}"
               \/ /\ parser.state = "name"
                  /\ parser.current_type = KW_scalar
                  /\ last_char' \in {" ", "\n", "{"}
       /\ \A ref \in RegistryRefs(parser) : objects'[ref] = objects[ref]]_vars

\* a second record is under construction, inside its body, while the
\* registry holds a first one
C8_Witness ==
    /\ Len(parser.schemas) > 0
    /\ parser.state = "fields"
    /\ parser.current_schema \notin RegistryRefs(parser)
    /\ parser.current_token # Empty

-----------------------------------------------------------------------------
(* C9 *)

\* C9: every scalar record has no fields, every value of every enum record
\* maps to the empty string, and the field sub-state is never 'expecting
\* type' while the current declaration kind is enum.
C9_ScalarAndEnumFields ==
    /\ \A i \in 1..Len(objects) :
          /\ objects[i].type = KW_scalar => objects[i].fields = <<>>
          /\ objects[i].type = KW_enum
             => \A j \in 1..Len(objects[i].fields) :
                   objects[i].fields[j].val = Empty
    /\ ~(parser.field_state = "dtype" /\ parser.current_type = KW_enum)

\* the registry holds an enum record with a value
C9_Witness ==
    \E i \in 1..Len(parser.schemas) :
        /\ RegistryRecords[i].record.type = KW_enum
        /\ RegistryRecords[i].record.fields # <<>>

-----------------------------------------------------------------------------
(* C10 *)

\* C10: as long as no parse error was raised, every record in the registry
\* has a non-empty name and is stored under that name.
C10_RegisteredNamesNonEmpty ==
    (calls = 0 /\ err = "")
    => \A i \in 1..Len(parser.schemas) :
          /\ RegistryRecords[i].record.name # Empty
          /\ RegistryRecords[i].key = RegistryRecords[i].record.name

-----------------------------------------------------------------------------
(* C11 *)

RECURSIVE CustomSections(_)
\* the sections of the declared records other than Query and Mutation, in
\* the order of their declarations
CustomSections(ds) ==
    IF ds = <<>> THEN <<>>
    ELSE (IF Head(ds).name \in {S_Query, S_Mutation} THEN <<>>
          ELSE <<SchemaToMarkdown(RecordNamed(Head(ds).name), <<"##">>,
                                  parser.scalars)>>)
         \o CustomSections(Tail(ds))

\* the text from the 'Custom Data Types' heading on
RECURSIVE FromCustomHeading(_)
FromCustomHeading(text) ==
    IF text = <<>> THEN <<>>
    ELSE IF Head(text) = "# Custom Data Types" THEN text
    ELSE FromCustomHeading(Tail(text))

\* C11: when the registry holds both Query and Mutation and the assembly
\* succeeds, the document is, in this order and joined by one blank line:
\* the 'Entrypoint Data Types' heading, the Query section, the Mutation
\* section, the 'Custom Data Types' heading, then one section per other
\* record in insertion order; Query and Mutation are not under 'Custom Data
\* Types' wherever they were declared.
C11_SectionsInOrder ==
    (calls = 1 /\ err = "")
    => /\ {S_Query, S_Mutation} \subseteq DeclaredNames
       /\ markdown =
            Join(<< <<"# Entrypoint Data Types">>,
                    SchemaToMarkdown(RecordNamed(S_Query), <<"##">>, SCALARS),
                    SchemaToMarkdown(RecordNamed(S_Mutation), <<"##">>, SCALARS),
                    <<"# Custom Data Types">> >>
                 \o CustomSections(decls),
                 <<"\n\n">>)
       /\ ~Contains(FromCustomHeading(markdown), SectionHeading(S_Query))
       /\ ~Contains(FromCustomHeading(markdown), SectionHeading(S_Mutation))

\* a document that declares Bar, Mutation, Foo, Query in this order has
\* been assembled
C11_Witness ==
    /\ calls = 1
    /\ err = ""
    /\ Len(decls) = 4
    /\ decls[1].name = S_Bar
    /\ decls[2].name = S_Mutation
    /\ decls[3].name = S_Foo
    /\ decls[4].name = S_Query

-----------------------------------------------------------------------------
(* C12 *)

\* C12: a to_markdown call on a registry without a Query record fails with
\* a KeyError and returns no Markdown, whatever else the registry holds.
C12_MissingQueryIsFatal ==
    [][(calls' = calls + 1 /\ ~DictHas(parser.schemas, S_Query))
       => /\ err' = "KeyError"
          /\ markdown' = <<>>
          /\ parser'.schemas = parser.schemas]_vars

\* the first call on a registry that holds Mutation and Foo and no Query
\* has failed
C12_Witness ==
    /\ calls = 1
    /\ err = "KeyError"
    /\ S_Query \notin DeclaredNames
    /\ DictHas(parser.schemas, S_Mutation)
    /\ DictHas(parser.schemas, S_Foo)

-----------------------------------------------------------------------------
(* Vocabulary of the steps of read_character *)

\* the step calls read_character, on the character last_char'
ReadStep == last_char' # ""

\* the character read is not discarded by the line-comment flag
OutsideLineComment ==
    last_char' = "\n" \/ (last_char' # "#" /\ ~parser.comment)

\* the step hands a token and its delimiter to the state machine
DispatchStep ==
    /\ ReadStep
    /\ last_char' \in Delimiters
    /\ OutsideLineComment
    /\ parser.bracket_level <= 0
    /\ ~parser.long_comment

\* the step registers the record in progress under the name name
Registers(name) ==
    /\ DictHas(parser'.schemas, name)
    /\ DictGet(parser'.schemas, name) = parser.current_schema
    /\ objects'[parser.current_schema].name = name

\* the edges of the declaration state machine
StateEdge ==
    \/ /\ parser.state = "none" /\ parser'.state = "name"
       /\ parser.current_token \in KEYWORDS
    \/ /\ parser.state = "name" /\ parser'.state = "fields"
       /\ parser.current_type # KW_scalar
    \/ /\ parser.state = "name" /\ parser'.state = "none"
       /\ parser.current_type = KW_scalar
       /\ Registers(parser.current_token)
    \/ /\ parser.state = "fields" /\ parser'.state = "none"
       /\ last_char' = "}"
       /\ Registers(objects[parser.current_schema].name)

-----------------------------------------------------------------------------
(* C13 *)

\* C13 as stated: the declaration state changes only when a delimiter is
\* read at bracket depth 0 outside line and doc comments, and only along
\* the edges none->name, name->fields, name->none and fields->none.
C13_ChangesOnlyAtDepthZero ==
    [][(parser'.state # parser.state)
       => /\ DispatchStep
          /\ parser.bracket_level = 0
          /\ StateEdge
          /\ (parser'.state = "fields" => parser'.field_state = "field")]_vars

\* C13: the declaration state changes only when a delimiter is read at a
\* bracket depth not above 0 outside line and doc comments, and only along
\* the edges none->name (keyword token), name->fields (kind not scalar),
\* name->none (scalar, record registered) and fields->none (closing brace,
\* record registered); on entering fields the field sub-state is
\* 'expecting field name'.
C13_StateChangesOnlyAtDispatch ==
    [][(parser'.state # parser.state)
       => /\ DispatchStep
          /\ StateEdge
          /\ (parser'.state = "fields" => parser'.field_state = "field")]_vars

\* a record has been opened below bracket depth 0 and closed again
C13_Witness ==
    /\ parser.bracket_level < 0
    /\ parser.state = "none"
    /\ last_char = "}"
    /\ Len(parser.schemas) = 1

-----------------------------------------------------------------------------
(* C14 *)

\* the dispatch is one the state none or the state name does not accept
StructuralError ==
    /\ DispatchStep
    /\ \/ /\ parser.state = "none"
          /\ \/ last_char' \notin {" ", "\n"}
             \/ parser.current_token \notin KEYWORDS \cup {Empty}
       \/ /\ parser.state = "name"
          /\ last_char' \notin {" ", "\n", "{"}

\* C14: a dispatch in state none whose delimiter is not space or newline
\* or whose token is non-empty and no keyword, and a dispatch in state name
\* whose delimiter is not space, newline or an opening brace, raise an
\* error; that step adds no record to the registry, and after it the run
\* takes no further step, so no Markdown is produced.
C14_StructuralErrorsAbort ==
    [][/\ StructuralError
          => /\ err' # ""
             /\ parser'.schemas = parser.schemas
             /\ pc' = "done"
             /\ markdown' = <<>>
       /\ (err # "" /\ calls = 0) => UNCHANGED vars]_vars

\* the name of a declaration was ended by a colon
C14_Witness ==
    /\ err = "AssertionError"
    /\ parser.state = "name"
    /\ last_char = ":"
    /\ pc = "done"
    /\ calls = 0

-----------------------------------------------------------------------------
(* C15 *)

\* C15 as stated: in state fields no dispatch raises for a type or input
\* record, and for an enum record the only dispatch that raises is a
\* non-empty token ended by a colon while a field name is expected.
C15_OnlyEnumColonRaises ==
    [][(DispatchStep /\ parser.state = "fields")
       => (err' # "" <=> /\ parser.current_type = KW_enum
                         /\ parser.current_token # Empty
                         /\ last_char' = ":"
                         /\ parser.field_state = "field")]_vars

\* C15: in state fields a dispatch raises exactly when its token is
\* non-empty and either its delimiter is an opening brace (whatever the
\* kind of the record and the field sub-state) or the record is an enum,
\* a field name is expected and the delimiter is a colon.
C15_BraceOrEnumColonRaises ==
    [][(DispatchStep /\ parser.state = "fields")
       => (err' # "" <=> /\ parser.current_token # Empty
                         /\ \/ last_char' = "{"
                            \/ /\ parser.current_type = KW_enum
                               /\ parser.field_state = "field"
                               /\ last_char' = ":")]_vars

\* a token in the body of an object type was ended by an opening brace
C15_Witness ==
    /\ err = "AssertionError"
    /\ parser.state = "fields"
    /\ parser.current_type = KW_type
    /\ parser.current_token # Empty
    /\ last_char = "{"

-----------------------------------------------------------------------------
(* C16 *)

\* C16: in state fields a dispatch with delimiter = sets the line-comment
\* flag and empties the token buffer and changes nothing else: no field is
\* added, the field sub-state and the pending field name stay, the token
\* before the = is dropped; the flag then stays set until a newline is
\* read, which clears it.
C16_EqualsOnlyStartsComment ==
    [][/\ (DispatchStep /\ parser.state = "fields" /\ last_char' = "=")
          => /\ parser' = [parser EXCEPT !.comment = TRUE,
                                          !.current_token = Empty]
             /\ objects' = objects
             /\ err' = ""
       /\ (ReadStep /\ parser.comment /\ last_char' # "\n")
          => (parser' = parser /\ objects' = objects)
       /\ (ReadStep /\ last_char' = "\n") => ~parser'.comment]_vars

\* the type of a field was cut short by a default value
C16_Witness ==
    /\ parser.state = "fields"
    /\ parser.field_state = "dtype"
    /\ parser.current_field = S_x
    /\ parser.comment
    /\ last_char = "="

-----------------------------------------------------------------------------
(* C17 *)

\* the change of the bracket depth the character c stands for
DepthChange(c) == IF c = "(" THEN 1 ELSE IF c = ")" THEN -1 ELSE 0

\* C17: every character read outside a line comment moves the bracket
\* depth up by one if it is ( and down by one if it is ); while the depth
\* is above 0 such a character, delimiters included, is appended to the
\* token buffer and nothing else changes: no dispatch, no field boundary,
\* no error.
C17_ParenthesesAreOpaque ==
    [][(ReadStep /\ OutsideLineComment)
       => /\ (last_char' \in {"(", ")"} \/ parser.bracket_level > 0)
             => parser'.bracket_level =
                  parser.bracket_level + DepthChange(last_char')
          /\ parser.bracket_level > 0
             => /\ parser' =
                     [parser EXCEPT
                        !.current_token = Append(@, last_char'),
                        !.bracket_level = @ + DepthChange(last_char'),
                        !.comment = FALSE]
                /\ objects' = objects
                /\ err' = ""]_vars

\* the field x(x: x): x has been recorded as the one field of its record
C17_Witness ==
    /\ err = ""
    /\ Len(objects) = 1
    /\ objects[1].fields = <<Field(S_x \o <<"(">> \o S_x \o <<":", " ">>
                                    \o S_x \o <<")">>, S_x)>>
    /\ parser.bracket_level = 0
    /\ parser.field_state = "field"

-----------------------------------------------------------------------------
(* C18 *)

\* C18: a step that reads a delimiter at bracket depth 0 outside a line
\* comment without raising leaves the token buffer empty; when the whole
\* file has been read at depth 0 the token buffer is empty; and the newline
\* fed after a last line without a newline registers the scalar whose name
\* is still in the token buffer.
C18_DelimiterEmptiesToken ==
    [][/\ (/\ ReadStep
           /\ last_char' \in Delimiters
           /\ OutsideLineComment
           /\ parser.bracket_level = 0
           /\ err' = "")
          => parser'.current_token = Empty
       /\ (pc' = "render" /\ calls' = 0 /\ parser'.bracket_level = 0)
          => parser'.current_token = Empty
       /\ (/\ ReadStep
           /\ eof
           /\ parser.state = "name"
           /\ parser.current_type = KW_scalar
           /\ parser.bracket_level = 0
           /\ ~parser.long_comment)
          => /\ err' = ""
             /\ Registers(parser.current_token)
             /\ objects'[parser.current_schema].type = KW_scalar]_vars

\* the file ended in 'scalar x' without a newline, and x is registered
C18_Witness ==
    /\ Parsed
    /\ eof
    /\ last_char = "\n"
    /\ Len(parser.schemas) = 1
    /\ parser.schemas[1].key = S_x
    /\ objects[parser.schemas[1].val] = GraphQLSchema(S_x, KW_scalar)
    /\ parser.current_token = Empty

-----------------------------------------------------------------------------
(* C19 *)

\* the delimiter and keyword checks of the three states, on an error state
\* (a raise leaves the state, the token and the character in place)
DelimiterOrKeywordCheck ==
    \/ /\ parser.state = "none"
       /\ \/ last_char \notin {" ", "\n"}
          \/ parser.current_token \notin KEYWORDS \cup {Empty}
    \/ /\ parser.state = "name"
       /\ last_char \notin {" ", "\n", "{"}
    \/ /\ parser.state = "fields"
       /\ parser.current_token # Empty
       /\ \/ last_char = "{"
          \/ parser.current_type = KW_enum /\ last_char = ":"

\* C19: the state is none exactly when the current declaration kind is
\* empty; in the states name and fields there is a record in progress; when
\* a field type is expected the pending field name is non-empty; and every
\* error raised while parsing comes from a delimiter or keyword check.
C19_ParserConsistent ==
    /\ parser.state = "none" <=> parser.current_type = Empty
    /\ parser.state \in {"name", "fields"}
          => parser.current_schema \in 1..Len(objects)
    /\ parser.field_state = "dtype" => parser.current_field # Empty
    /\ (err # "" /\ calls = 0) => DelimiterOrKeywordCheck

\* a field name is pending while its type is read
C19_Witness ==
    /\ parser.state = "fields"
    /\ parser.field_state = "dtype"
    /\ parser.current_field = S_x
    /\ parser.current_token = S_x
    /\ err = ""

-----------------------------------------------------------------------------
(* C20 *)

\* every scalar record of the registry p.schemas is named in p.scalars
ScalarRecordsKnown(p, heap) ==
    \A i \in 1..Len(p.schemas) :
        heap[p.schemas[i].val].type = KW_scalar
            => heap[p.schemas[i].val].name \in p.scalars

\* C20: the scalar set holds the five built-in names and never loses a
\* member; every scalar record in the registry is named in it; it changes
\* only in the step that registers a scalar record, which adds that
\* record's name.
C20_ScalarSetGrowsWithRegistry ==
    [][/\ SCALARS \subseteq parser.scalars
       /\ parser.scalars \subseteq parser'.scalars
       /\ ScalarRecordsKnown(parser, objects)
       /\ ScalarRecordsKnown(parser', objects')
       /\ (parser'.scalars # parser.scalars)
          => /\ DispatchStep
             /\ parser.state = "name"
             /\ parser.current_type = KW_scalar
             /\ parser'.scalars = parser.scalars \cup {parser.current_token}
             /\ Registers(parser.current_token)
       /\ (/\ DispatchStep
           /\ parser.state = "name"
           /\ parser.current_type = KW_scalar
           /\ err' = "")
          => /\ Registers(parser.current_token)
             /\ parser.current_token \in parser'.scalars]_vars

\* the scalar x has been declared
C20_Witness ==
    /\ parser.scalars = SCALARS \cup {S_x}
    /\ DictHas(parser.schemas, S_x)
    /\ objects[DictGet(parser.schemas, S_x)].type = KW_scalar
    /\ calls = 0

=============================================================================
